---- MODULE Spec2Model ----
(***************************************************************************)
(* A model of cet::concurrent_cache<K, V> (src/concurrent_cache.h), its    *)
(* entries (src/concurrent_cache_entry.h) and its handles                  *)
(* (src/cache_handle.h), with K = cet::test::interval_of_validity          *)
(* (src/interval_of_validity.h).                                           *)
(*                                                                         *)
(* entries_ is a tbb::concurrent_hash_map: insert/find with an accessor    *)
(* take the item's write lock atomically with the lookup and hold it until *)
(* the accessor is destroyed; erase(key) unlinks the item from the map     *)
(* first, then waits for the item's lock, then frees the item.  counts_ is *)
(* a tbb::concurrent_unordered_map: rows are inserted concurrently, never  *)
(* removed, and iteration reads one row at a time.                         *)
(*                                                                         *)
(* Unsigned integers are written by their representative of smallest       *)
(* magnitude: -1 is the all-ones word (-1u, -1ull), and a use count of 0   *)
(* decremented once is -1.                                                 *)
(***************************************************************************)
EXTENDS Integers, Sequences, FiniteSets, TLC

\* ------------------------------------------------------------------ bounds
\* Entries created over the life of the cache (values of
\* next_sequence_number_ handed out).
MaxSeq == 3
\* Largest keep_last passed to drop_unused_but_last.
MaxKeep == 1

\* ------------------------------------------------------- program constants
NoEntry == 0
NoValue == 0
InvalidSequenceNumber == -1
InvalidUseCount == -1

\* ------------------------------------------------------------- parameters
Threads == {1, 2}
Slots == {1, 2}
Keys == {<<0, 2>>, <<1, 3>>}
NoKey == <<0, 0>>
Probes == 0 .. 3
Values == {1, 2}
Nodes == 1 .. MaxSeq
CounterIds == (0 - MaxSeq) .. (MaxSeq - 1)

VARIABLES
  entries,       \* entries_: key -> the node linked in the hash map
  node,          \* the memory of the hash-map nodes (a concurrent_cache_entry each)
  counts,        \* counts_: key -> counter record
  use_count,     \* entry_count::use_count of every counter record
  next_sequence_number_,
  handle,        \* cache_handle::entry_ of every handle object, per thread
  thread,        \* each thread's position and locals
  observed,      \* history: the primary map at the call of the running
                 \* drop_unused_but_last (key -> counter record)
  script         \* each thread's place in count_data::operator() and its event

vars == <<entries, node, counts, use_count, next_sequence_number_, handle, thread,
          observed, script>>

\* ---------------------------------------------------- interval_of_validity
supports(key, value) == key[1] <= value /\ key[2] > value

KeyLess(a, b) == a[1] < b[1] \/ (a[1] = b[1] /\ a[2] < b[2])

\* The order in which an iteration over counts_ visits the keys.
RECURSIVE KeyOrderOf(_)
KeyOrderOf(S) ==
  IF S = {} THEN <<>>
  ELSE LET m == CHOOSE x \in S : \A y \in S : x = y \/ KeyLess(x, y)
       IN <<m>> \o KeyOrderOf(S \ {m})

KeyOrder == KeyOrderOf(Keys)

\* ------------------------------------------------------------ entry_count
\* Counter records are named by their sequence number; the record made by
\* make_invalid_counter() for node n is named -n.
sequence_number(c) == IF c < 0 THEN InvalidSequenceNumber ELSE c

\* x > y on std::size_t
SizeGreater(x, y) ==
  /\ x # y
  /\ \/ x = InvalidSequenceNumber
     \/ (y # InvalidSequenceNumber /\ x > y)

\* std::greater<> on std::pair<std::size_t, K>
PairGreater(a, b) ==
  \/ SizeGreater(a[1], b[1])
  \/ (a[1] = b[1] /\ KeyLess(b[2], a[2]))

RECURSIVE SortGreater(_)
SortGreater(s) ==
  IF Len(s) = 0 THEN <<>>
  ELSE LET i == CHOOSE j \in 1 .. Len(s) :
                  \A l \in 1 .. Len(s) : l = j \/ s[l] = s[j] \/ PairGreater(s[j], s[l])
           rest == [l \in 1 .. (Len(s) - 1) |-> IF l < i THEN s[l] ELSE s[l + 1]]
       IN <<s[i]>> \o SortGreater(rest)

\* ------------------------------------------------------------------ state
FreshNode == [st |-> "fresh", key |-> NoKey, value |-> NoValue, count |-> 0, lock |-> FALSE]

NoScript == [at |-> "start", event |-> 0]

Idle == [pc |-> "idle", k |-> NoKey, v |-> NoValue, keep |-> 0, cur |-> 0,
         snap |-> <<>>, tok |-> NoEntry, dst |-> 0, src |-> 0, probe |-> 0,
         match |-> <<>>]

InitWith(callers) ==
  /\ entries = <<>>
  /\ node = [n \in Nodes |-> FreshNode]
  /\ counts = <<>>
  /\ use_count = [c \in CounterIds |-> 0]
  /\ next_sequence_number_ = 0
  /\ handle = [t \in callers |-> [s \in Slots |-> NoEntry]]
  /\ thread = [t \in callers |-> Idle]
  /\ observed = <<>>
  /\ script = [t \in callers |-> NoScript]

Init == InitWith(Threads)

\* size(), empty(), capacity()
size == Cardinality(DOMAIN entries)
empty == DOMAIN entries = {}
capacity == Cardinality(DOMAIN counts)

\* --------------------------------------------------------------- helpers
IdleAt(t) == thread[t].pc = "idle"

\* A node for the allocator to hand out: memory freed earlier, or memory
\* never used before.
AllocChoices ==
  LET fresh == {n \in Nodes : node[n].st = "fresh"}
  IN {n \in Nodes : node[n].st = "freed"} \cup
     (IF fresh = {} THEN {} ELSE {CHOOSE n \in fresh : \A m \in fresh : n <= m})

\* The cap on next_sequence_number_: every thread that has inserted a node
\* and has not yet drawn its sequence number is counted.
CanCreate ==
  next_sequence_number_
    + Cardinality({t \in Threads : thread[t].pc = "emplace_build"}) < MaxSeq

\* concurrent_cache_entry::increment_reference_count / decrement_reference_count
\* through the entry pointer n (whatever that memory holds now).
increment_reference_count(uc, n) == [uc EXCEPT ![node[n].count] = @ + 1]
decrement_reference_count(uc, n) == [uc EXCEPT ![node[n].count] = @ - 1]

\* --------------------------------------------------------------- emplace
\* EmplaceInsert with the bug of an insert-or-assign: on an existing key
\* the caller's value replaces the stored one.
EmplaceInsertAssigns(t, k, v, s) ==
  /\ UNCHANGED <<observed, script>>
  /\ IdleAt(t)
  /\ handle[t][s] = NoEntry
  /\ IF k \in DOMAIN entries
     THEN /\ ~node[entries[k]].lock
          /\ node' = [node EXCEPT ![entries[k]].lock = TRUE,
                                  ![entries[k]].value = v]
          /\ thread' = [thread EXCEPT ![t] =
                          [Idle EXCEPT !.pc = "emplace_found", !.k = k, !.v = v,
                                       !.tok = entries[k], !.dst = s]]
          /\ UNCHANGED <<entries, use_count>>
     ELSE /\ CanCreate
          /\ \E n \in AllocChoices :
               /\ node' = [node EXCEPT ![n] =
                             [st |-> "live", key |-> k, value |-> NoValue,
                              count |-> 0 - n, lock |-> TRUE]]
               /\ use_count' = [use_count EXCEPT ![0 - n] = InvalidUseCount]
               /\ entries' = [x \in DOMAIN entries \cup {k} |->
                                IF x = k THEN n ELSE entries[x]]
               /\ thread' = [thread EXCEPT ![t] =
                               [Idle EXCEPT !.pc = "emplace_build", !.k = k, !.v = v,
                                            !.tok = n, !.dst = s]]
  /\ UNCHANGED <<counts, next_sequence_number_, handle>>

\* entries_.insert(access_token, k): on a new key a default-constructed
\* entry is linked and locked; on an existing key its lock is taken (the
\* caller waits while another accessor holds it).
EmplaceCall(t, k, v, s) ==
  /\ IdleAt(t)
  /\ handle[t][s] = NoEntry
  /\ IF k \in DOMAIN entries
     THEN /\ ~node[entries[k]].lock
          /\ node' = [node EXCEPT ![entries[k]].lock = TRUE]
          /\ thread' = [thread EXCEPT ![t] =
                          [Idle EXCEPT !.pc = "emplace_found", !.k = k, !.v = v,
                                       !.tok = entries[k], !.dst = s]]
          /\ UNCHANGED <<entries, use_count>>
     ELSE /\ CanCreate
          /\ \E n \in AllocChoices :
               /\ node' = [node EXCEPT ![n] =
                             [st |-> "live", key |-> k, value |-> NoValue,
                              count |-> 0 - n, lock |-> TRUE]]
               /\ use_count' = [use_count EXCEPT ![0 - n] = InvalidUseCount]
               /\ entries' = [x \in DOMAIN entries \cup {k} |->
                                IF x = k THEN n ELSE entries[x]]
               /\ thread' = [thread EXCEPT ![t] =
                               [Idle EXCEPT !.pc = "emplace_build", !.k = k, !.v = v,
                                            !.tok = n, !.dst = s]]
  /\ UNCHANGED <<counts, next_sequence_number_, handle>>

EmplaceInsert(t, k, v, s) ==
  /\ UNCHANGED <<observed, script>>
  /\ EmplaceCall(t, k, v, s)

\* EmplaceBuild with the bug of reading next_sequence_number_ without
\* adding to it.
EmplaceBuildReusesNumber(t) ==
  /\ UNCHANGED <<observed, script>>
  /\ thread[t].pc = "emplace_build"
  /\ LET sn == next_sequence_number_
     IN /\ use_count' = [use_count EXCEPT ![sn] = 0]
        /\ node' = [node EXCEPT ![thread[t].tok].value = thread[t].v,
                                ![thread[t].tok].count = sn]
  /\ thread' = [thread EXCEPT ![t].pc = "emplace_publish"]
  /\ UNCHANGED <<entries, counts, handle, next_sequence_number_>>

\* next_sequence_number_.fetch_add(1), make_counter, and the assignment of
\* the built entry to the locked node.
EmplaceBuild(t) ==
  /\ UNCHANGED <<observed, script>>
  /\ thread[t].pc = "emplace_build"
  /\ LET sn == next_sequence_number_
     IN /\ next_sequence_number_' = sn + 1
        /\ use_count' = [use_count EXCEPT ![sn] = 0]
        /\ node' = [node EXCEPT ![thread[t].tok].value = thread[t].v,
                                ![thread[t].tok].count = sn]
  /\ thread' = [thread EXCEPT ![t].pc = "emplace_publish"]
  /\ UNCHANGED <<entries, counts, handle>>

\* counts_.insert({k, counter}); if the row exists, it->second = counter.
EmplacePublish(t) ==
  /\ UNCHANGED <<observed, script>>
  /\ thread[t].pc = "emplace_publish"
  /\ counts' = [x \in DOMAIN counts \cup {thread[t].k} |->
                  IF x = thread[t].k THEN node[thread[t].tok].count ELSE counts[x]]
  /\ thread' = [thread EXCEPT ![t].pc = "emplace_return"]
  /\ UNCHANGED <<entries, node, use_count, next_sequence_number_, handle>>

\* ReturnHandle with the bug of an accessor that is never released.
ReturnHandleKeepsPosition(t) ==
  LET n == thread[t].tok
  IN /\ handle' = [handle EXCEPT ![t][thread[t].dst] = n]
     /\ use_count' = increment_reference_count(use_count, n)
     /\ thread' = [thread EXCEPT ![t] = Idle]
     /\ UNCHANGED <<entries, node, counts, next_sequence_number_>>

\* return handle{access_token->second}: the handle is constructed (its
\* increment), then the accessor is destroyed (the lock released).
ReturnHandle(t) ==
  LET n == thread[t].tok
  IN /\ handle' = [handle EXCEPT ![t][thread[t].dst] = n]
     /\ use_count' = increment_reference_count(use_count, n)
     /\ node' = [node EXCEPT ![n].lock = FALSE]
     /\ thread' = [thread EXCEPT ![t] = Idle]
     /\ UNCHANGED <<entries, counts, next_sequence_number_>>

EmplaceReturn(t) ==
  /\ UNCHANGED <<observed, script>>
  /\ thread[t].pc \in {"emplace_found", "emplace_return"}
  /\ ReturnHandle(t)

\* -------------------------------------------------------------------- at
\* Find with the bug of a lookup that never hits.
FindNothing(t, k, s) ==
  /\ thread' = [thread EXCEPT ![t] = [Idle EXCEPT !.pc = "at_miss", !.k = k, !.dst = s]]
  /\ UNCHANGED <<entries, node, counts, use_count, next_sequence_number_, handle>>

\* entries_.find(access_token, k): on a hit the item's lock is taken (the
\* caller waits while another accessor holds it).
Find(t, k, s) ==
  IF k \in DOMAIN entries
  THEN /\ ~node[entries[k]].lock
       /\ node' = [node EXCEPT ![entries[k]].lock = TRUE]
       /\ thread' = [thread EXCEPT ![t] =
                       [Idle EXCEPT !.pc = "at_found", !.k = k,
                                    !.tok = entries[k], !.dst = s]]
       /\ UNCHANGED <<entries, counts, use_count, next_sequence_number_, handle>>
  ELSE /\ thread' = [thread EXCEPT ![t] = [Idle EXCEPT !.pc = "at_miss", !.k = k, !.dst = s]]
       /\ UNCHANGED <<entries, node, counts, use_count, next_sequence_number_, handle>>

At(t, k, s) ==
  /\ UNCHANGED <<observed, script>>
  /\ IdleAt(t)
  /\ handle[t][s] = NoEntry
  /\ Find(t, k, s)

AtReturn(t) ==
  /\ UNCHANGED <<observed, script>>
  /\ thread[t].pc = "at_found"
  /\ ReturnHandle(t)

\* return handle{} after a miss.
AtMiss(t) ==
  /\ UNCHANGED <<observed, script>>
  /\ thread[t].pc = "at_miss"
  /\ thread' = [thread EXCEPT ![t] = Idle]
  /\ UNCHANGED <<entries, node, counts, use_count, next_sequence_number_, handle>>

\* cache_handle::operator* on a handle that refers to entry n:
\* concurrent_cache_entry::get().
Deref(n) == node[n].value

\* Dereference with the bug of reporting a null handle as an empty entry.
DereferenceWrongError(t, s) ==
  /\ UNCHANGED <<observed, script>>
  /\ IdleAt(t)
  /\ IF handle[t][s] = NoEntry \/ Deref(handle[t][s]) = NoValue
     THEN thread' = [thread EXCEPT ![t] =
                       [Idle EXCEPT !.pc = "Invalid cache entry dereference.", !.dst = s]]
     ELSE UNCHANGED thread
  /\ UNCHANGED <<entries, node, counts, use_count, next_sequence_number_, handle>>

\* operator* (and operator->, which calls it) on the handle in slot s: a
\* null handle throws; otherwise get() throws on an entry without a value
\* and returns a reference to the value when there is one.
Dereference(t, s) ==
  /\ UNCHANGED <<observed, script>>
  /\ IdleAt(t)
  /\ IF handle[t][s] = NoEntry
     THEN thread' = [thread EXCEPT ![t] =
                       [Idle EXCEPT !.pc = "Invalid cache handle dereference.", !.dst = s]]
     ELSE IF Deref(handle[t][s]) = NoValue
     THEN thread' = [thread EXCEPT ![t] =
                       [Idle EXCEPT !.pc = "Invalid cache entry dereference.", !.dst = s]]
     ELSE UNCHANGED thread
  /\ UNCHANGED <<entries, node, counts, use_count, next_sequence_number_, handle>>

\* The exception leaves operator* and reaches the caller.
DereferenceThrow(t) ==
  /\ UNCHANGED <<observed, script>>
  /\ thread[t].pc \in {"Invalid cache handle dereference.",
                       "Invalid cache entry dereference."}
  /\ thread' = [thread EXCEPT ![t] = Idle]
  /\ UNCHANGED <<entries, node, counts, use_count, next_sequence_number_, handle>>

\* ------------------------------------------------------------- entry_for
EntryForCall(t, p, s) ==
  /\ IdleAt(t)
  /\ handle[t][s] = NoEntry
  /\ thread' = [thread EXCEPT ![t] =
                  [Idle EXCEPT !.pc = "entry_for_scan", !.probe = p, !.dst = s, !.cur = 1]]
  /\ UNCHANGED <<entries, node, counts, use_count, next_sequence_number_, handle>>

EntryFor(t, p, s) ==
  /\ UNCHANGED <<observed, script>>
  /\ EntryForCall(t, p, s)

\* One turn of the loop over counts_.
EntryForScan(t) ==
  /\ UNCHANGED <<observed, script>>
  /\ thread[t].pc = "entry_for_scan"
  /\ LET key == KeyOrder[thread[t].cur]
         hit == key \in DOMAIN counts /\ supports(key, thread[t].probe)
         m == IF hit THEN Append(thread[t].match, key) ELSE thread[t].match
     IN thread' = [thread EXCEPT ![t].match = m,
                                 ![t].cur = @ + 1,
                                 ![t].pc = IF thread[t].cur = Len(KeyOrder)
                                           THEN "entry_for_scanned" ELSE @]
  /\ UNCHANGED <<entries, node, counts, use_count, next_sequence_number_, handle>>

\* EntryForDecide with the bug of settling an ambiguous probe on the first
\* matching key instead of throwing.
EntryForDecideTakesFirst(t) ==
  /\ UNCHANGED <<observed, script>>
  /\ thread[t].pc = "entry_for_scanned"
  /\ IF Len(thread[t].match) = 0
     THEN /\ thread' = [thread EXCEPT ![t] = Idle]
          /\ UNCHANGED <<entries, node, counts, use_count, next_sequence_number_, handle>>
     ELSE Find(t, thread[t].match[1], thread[t].dst)

\* The three ways out of entry_for once matching_keys is complete.
EntryForDecide(t) ==
  /\ UNCHANGED <<observed, script>>
  /\ thread[t].pc = "entry_for_scanned"
  /\ IF Len(thread[t].match) = 0
     THEN /\ thread' = [thread EXCEPT ![t] = Idle]
          /\ UNCHANGED <<entries, node, counts, use_count, next_sequence_number_, handle>>
     ELSE IF Len(thread[t].match) > 1
     THEN /\ thread' = [thread EXCEPT ![t] =
                          [Idle EXCEPT !.pc = "Data retrieval error.",
                                       !.probe = thread[t].probe]]
          /\ UNCHANGED <<entries, node, counts, use_count, next_sequence_number_, handle>>
     ELSE Find(t, thread[t].match[1], thread[t].dst)

\* The exception leaves entry_for and reaches the caller.
EntryForThrow(t) ==
  /\ UNCHANGED <<observed, script>>
  /\ thread[t].pc = "Data retrieval error."
  /\ thread' = [thread EXCEPT ![t] = Idle]
  /\ UNCHANGED <<entries, node, counts, use_count, next_sequence_number_, handle>>

\* ---------------------------------------------------------- cache_handle
\* HandleCopy with the bug of a copy that does not count itself.
HandleCopyForgetsCount(t, d, s) ==
  /\ UNCHANGED <<observed, script>>
  /\ IdleAt(t)
  /\ d # s
  /\ handle[t][d] = NoEntry
  /\ handle' = [handle EXCEPT ![t][d] = handle[t][s]]
  /\ UNCHANGED <<entries, node, counts, use_count, next_sequence_number_, thread>>

\* cache_handle(cache_handle const& other), into a handle object that did
\* not exist before (slot d).
HandleCopy(t, d, s) ==
  /\ UNCHANGED <<observed, script>>
  /\ IdleAt(t)
  /\ d # s
  /\ handle[t][d] = NoEntry
  /\ handle' = [handle EXCEPT ![t][d] = handle[t][s]]
  /\ use_count' = IF handle[t][s] # NoEntry
                  THEN increment_reference_count(use_count, handle[t][s])
                  ELSE use_count
  /\ UNCHANGED <<entries, node, counts, next_sequence_number_, thread>>

\* SameTarget with the bug of an operator= that lacks the same-target test.
NeverSameTarget(a, b) == FALSE

\* entry_ == other.entry_ in operator=
SameTarget(a, b) == a = b

\* operator=(cache_handle const& other) up to and including invalidate().
HandleAssign(t, d, s) ==
  /\ UNCHANGED <<observed, script>>
  /\ IdleAt(t)
  /\ IF SameTarget(handle[t][d], handle[t][s])
     THEN UNCHANGED <<handle, use_count, thread>>
     ELSE /\ handle' = [handle EXCEPT ![t][d] = NoEntry]
          /\ use_count' = IF handle[t][d] # NoEntry
                          THEN decrement_reference_count(use_count, handle[t][d])
                          ELSE use_count
          /\ thread' = [thread EXCEPT ![t] =
                          [Idle EXCEPT !.pc = "assign_adopt", !.dst = d, !.src = s]]
  /\ UNCHANGED <<entries, node, counts, next_sequence_number_>>

\* entry_ = other.entry_ and the increment that ends operator=.
HandleAdopt(t) ==
  /\ UNCHANGED <<observed, script>>
  /\ thread[t].pc = "assign_adopt"
  /\ LET e == handle[t][thread[t].src]
     IN /\ handle' = [handle EXCEPT ![t][thread[t].dst] = e]
        /\ use_count' = IF e # NoEntry
                        THEN increment_reference_count(use_count, e)
                        ELSE use_count
  /\ thread' = [thread EXCEPT ![t] = Idle]
  /\ UNCHANGED <<entries, node, counts, next_sequence_number_>>

\* invalidate with the bug of not setting entry_ to nullptr.
InvalidateKeepsTarget(t, s) ==
  /\ IdleAt(t)
  /\ IF handle[t][s] = NoEntry
     THEN UNCHANGED use_count
     ELSE use_count' = decrement_reference_count(use_count, handle[t][s])
  /\ UNCHANGED <<entries, node, counts, next_sequence_number_, thread, handle>>

\* invalidate(), and ~cache_handle(), which calls it.
invalidate(t, s) ==
  /\ IdleAt(t)
  /\ IF handle[t][s] = NoEntry
     THEN UNCHANGED <<handle, use_count>>
     ELSE /\ use_count' = decrement_reference_count(use_count, handle[t][s])
          /\ handle' = [handle EXCEPT ![t][s] = NoEntry]
  /\ UNCHANGED <<entries, node, counts, next_sequence_number_, thread>>

Invalidate(t, s) ==
  /\ UNCHANGED <<observed, script>>
  /\ invalidate(t, s)

\* ------------------------------------------------- drop_unused_but_last
DropCall(t, keep_last) ==
  /\ IdleAt(t)
  /\ thread' = [thread EXCEPT ![t] =
                  [Idle EXCEPT !.pc = "drop_scan", !.keep = keep_last, !.cur = 1]]
  /\ UNCHANGED <<entries, node, counts, use_count, next_sequence_number_, handle>>

DropUnusedButLast(t, keep_last) ==
  /\ DropCall(t, keep_last)
  /\ UNCHANGED <<observed, script>>

DropUnused(t) == DropUnusedButLast(t, 0)

\* The same calls, with the primary map at the call written to the history
\* variable.
DropUnusedButLastObserved(t, keep_last) ==
  /\ DropCall(t, keep_last)
  /\ observed' = [k \in DOMAIN entries |-> node[entries[k]].count]
  /\ UNCHANGED script

DropUnusedObserved(t) == DropUnusedButLastObserved(t, 0)

\* Where drop_unused_but_last returns to: into shrink_to_fit when that
\* called it, to the caller otherwise.
DropDone(t) ==
  IF script[t].at = "shrink_to_fit"
  THEN [Idle EXCEPT !.pc = "shrink_rebuild"]
  ELSE Idle

\* ToErase with the bug of taking keep_last for the number of entries to
\* erase (the oldest keep_last) instead of the number to keep.
ToEraseCountsTheErased(snapshot, keep_last) ==
  LET sorted == SortGreater(snapshot)
  IN IF Len(sorted) <= keep_last THEN sorted
     ELSE SubSeq(sorted, Len(sorted) - keep_last + 1, Len(sorted))

\* ToErase with an off-by-one in erase_begin: one entry too many is kept.
ToEraseKeepsOneMore(snapshot, keep_last) ==
  LET sorted == SortGreater(snapshot)
  IN IF Len(sorted) <= keep_last + 1 THEN <<>>
     ELSE SubSeq(sorted, keep_last + 2, Len(sorted))

\* The part of the sorted snapshot that drop_unused_but_last erases.
ToErase(snapshot, keep_last) ==
  LET sorted == SortGreater(snapshot)
  IN IF Len(sorted) <= keep_last THEN <<>>
     ELSE SubSeq(sorted, keep_last + 1, Len(sorted))

\* unused_entries_() run with no concurrent operation: the unused rows of
\* counts_ in the order of iteration, each as (sequence number, key).
unused_entries_ ==
  LET unused(k) == k \in DOMAIN counts /\ use_count[counts[k]] = 0
      keys == SelectSeq(KeyOrder, unused)
  IN [i \in 1 .. Len(keys) |-> <<sequence_number(counts[keys[i]]), keys[i]>>]

\* The keys drop_unused_but_last(keep_last), run with no concurrent
\* operation on a primary map with the keys present, leaves in it.
LeftBy(present, keep_last) ==
  LET drop == ToErase(unused_entries_, keep_last)
  IN present \ {drop[i][2] : i \in 1 .. Len(drop)}

\* One turn of the loop of unused_entries_() over counts_; after the last
\* turn, the sort and the choice of what to erase.
DropScan(t) ==
  /\ UNCHANGED <<observed, script>>
  /\ thread[t].pc = "drop_scan"
  /\ LET key == KeyOrder[thread[t].cur]
         hit == key \in DOMAIN counts /\ use_count[counts[key]] = 0
         sn == IF hit
               THEN Append(thread[t].snap, <<sequence_number(counts[key]), key>>)
               ELSE thread[t].snap
     IN IF thread[t].cur < Len(KeyOrder)
        THEN thread' = [thread EXCEPT ![t].snap = sn, ![t].cur = @ + 1]
        ELSE IF ToErase(sn, thread[t].keep) = <<>>
        THEN thread' = [thread EXCEPT ![t] = DropDone(t)]
        ELSE thread' = [thread EXCEPT ![t].pc = "drop_erase",
                                      ![t].cur = 0,
                                      ![t].snap = ToErase(sn, thread[t].keep)]
  /\ UNCHANGED <<entries, node, counts, use_count, next_sequence_number_, handle>>

\* The thread's record once the erase of Head(snap) is over.
NextErase(t) ==
  IF Len(thread[t].snap) = 1 THEN DropDone(t)
  ELSE [thread[t] EXCEPT !.pc = "drop_erase", !.tok = NoEntry,
                         !.snap = Tail(thread[t].snap)]

\* DropErase with the bug of erasing the key's row of counts_ along with
\* the item.
DropEraseDropsRow(t) ==
  /\ UNCHANGED <<observed, script>>
  /\ thread[t].pc = "drop_erase"
  /\ LET key == thread[t].snap[1][2]
     IN IF key \in DOMAIN entries
        THEN /\ entries' = [x \in DOMAIN entries \ {key} |-> entries[x]]
             /\ counts' = [x \in DOMAIN counts \ {key} |-> counts[x]]
             /\ thread' = [thread EXCEPT ![t].pc = "drop_erase_wait",
                                         ![t].tok = entries[key]]
        ELSE /\ thread' = [thread EXCEPT ![t] = NextErase(t)]
             /\ UNCHANGED <<entries, counts>>
  /\ UNCHANGED <<node, use_count, next_sequence_number_, handle>>

\* entries_.erase(key), first half: the item is unlinked from the map.
DropErase(t) ==
  /\ UNCHANGED <<observed, script>>
  /\ thread[t].pc = "drop_erase"
  /\ LET key == thread[t].snap[1][2]
     IN IF key \in DOMAIN entries
        THEN /\ entries' = [x \in DOMAIN entries \ {key} |-> entries[x]]
             /\ thread' = [thread EXCEPT ![t].pc = "drop_erase_wait",
                                         ![t].tok = entries[key]]
        ELSE /\ thread' = [thread EXCEPT ![t] = NextErase(t)]
             /\ UNCHANGED entries
  /\ UNCHANGED <<node, counts, use_count, next_sequence_number_, handle>>

\* DropEraseFree with the bug of an erase that does not wait for the
\* item's lock.
DropEraseFreeWithoutLock(t) ==
  /\ UNCHANGED <<observed, script>>
  /\ thread[t].pc = "drop_erase_wait"
  /\ node' = [node EXCEPT ![thread[t].tok].st = "freed"]
  /\ thread' = [thread EXCEPT ![t] = NextErase(t)]
  /\ UNCHANGED <<entries, counts, use_count, next_sequence_number_, handle>>

\* entries_.erase(key), second half: once no accessor holds the item's
\* lock, the item is destroyed and its memory freed.
DropEraseFree(t) ==
  /\ UNCHANGED <<observed, script>>
  /\ thread[t].pc = "drop_erase_wait"
  /\ ~node[thread[t].tok].lock
  /\ node' = [node EXCEPT ![thread[t].tok].st = "freed"]
  /\ thread' = [thread EXCEPT ![t] = NextErase(t)]
  /\ UNCHANGED <<entries, counts, use_count, next_sequence_number_, handle>>

\* --------------------------------------------------------- shrink_to_fit
\* shrink_to_fit(), called with exclusive access: drop_unused() first.
ShrinkToFit(t) ==
  /\ DropCall(t, 0)
  /\ script' = [script EXCEPT ![t].at = "shrink_to_fit"]
  /\ observed' = [k \in DOMAIN entries |-> node[entries[k]].count]

\* The rows of counts_ that are left in all_key_entries.  For each entry
\* of stale_entries, find_if looks for a row with pr.second == key: the
\* row's counter record compared with a key.  No row's counter record is
\* a key, so find_if returns end(all_key_entries) and
\* all_key_entries.erase(end) is undefined: each such erase takes some
\* row out of the vector, or none.
KeptRows ==
  LET stale == {k \in DOMAIN counts : use_count[counts[k]] = 0}
  IN {DOMAIN counts \ X :
        X \in {Y \in SUBSET (DOMAIN counts) : Cardinality(Y) <= Cardinality(stale)}}

\* The rest of shrink_to_fit after drop_unused(): counts_ is rebuilt from
\* what is left of all_key_entries.
ShrinkRebuild(t) ==
  /\ thread[t].pc = "shrink_rebuild"
  /\ \E rows \in KeptRows : counts' = [k \in rows |-> counts[k]]
  /\ thread' = [thread EXCEPT ![t] = Idle]
  /\ script' = [script EXCEPT ![t] = NoScript]
  /\ UNCHANGED <<entries, node, use_count, next_sequence_number_, handle, observed>>

\* ---------------------------------------------------------- specification
\* The operations of a thread that uses the cache; thread t passes the
\* value t to emplace.
Client(t) ==
  \/ \E k \in Keys, s \in Slots : EmplaceInsert(t, k, t, s)
  \/ EmplaceBuild(t)
  \/ EmplacePublish(t)
  \/ EmplaceReturn(t)
  \/ \E k \in Keys, s \in Slots : At(t, k, s)
  \/ AtReturn(t)
  \/ AtMiss(t)
  \/ \E p \in Probes, s \in Slots : EntryFor(t, p, s)
  \/ EntryForScan(t)
  \/ EntryForDecide(t)
  \/ EntryForThrow(t)
  \/ \E d \in Slots, s \in Slots : HandleCopy(t, d, s)
  \/ \E d \in Slots, s \in Slots : HandleAssign(t, d, s)
  \/ HandleAdopt(t)
  \/ \E s \in Slots : Invalidate(t, s)

\* The operations of a thread that cleans the cache up.
Janitor(t) ==
  \/ \E n \in 0 .. MaxKeep : DropUnusedButLast(t, n)
  \/ DropUnused(t)
  \/ DropScan(t)
  \/ DropErase(t)
  \/ DropEraseFree(t)

JanitorObserved(t) ==
  \/ \E n \in 0 .. MaxKeep : DropUnusedButLastObserved(t, n)
  \/ DropUnusedObserved(t)
  \/ DropScan(t)
  \/ DropErase(t)
  \/ DropEraseFree(t)

\* The operations of a thread that reads through its handles.
Reader(t) ==
  \/ \E s \in Slots : Dereference(t, s)
  \/ DereferenceThrow(t)

\* A client and a janitor, running concurrently.
Next == Client(1) \/ Janitor(2)

Spec == Init /\ [][Next]_vars

\* One thread: no operation runs concurrently with another.
NextSerial == Client(1) \/ JanitorObserved(1) \/ Reader(1)

SpecSerial == Init /\ [][NextSerial]_vars

\* One thread that also calls shrink_to_fit.
NextShrink ==
  \/ Client(1)
  \/ ShrinkToFit(1)
  \/ DropScan(1)
  \/ DropErase(1)
  \/ DropEraseFree(1)
  \/ ShrinkRebuild(1)

SpecShrink == Init /\ [][NextShrink]_vars

\* The operations of a thread that caches data and lets go of it.
Emplacer(t) ==
  \/ \E k \in Keys : EmplaceInsert(t, k, t, 1)
  \/ EmplaceBuild(t)
  \/ EmplacePublish(t)
  \/ EmplaceReturn(t)
  \/ Invalidate(t, 1)

\* Two threads that cache data while a third cleans the cache up.
RaceThreads == Threads \cup {3}

InitRace == InitWith(RaceThreads)

NextRace == Emplacer(1) \/ Emplacer(2) \/ Janitor(3)

SpecRace == InitRace /\ [][NextRace]_vars

\* Two clients running concurrently; nothing is evicted.
NextClients == Client(1) \/ Client(2)

SpecClients == Init /\ [][NextClients]_vars

\* ------------------------------------------------------------- progress
\* The operations of a thread that caches data and looks data up by
\* event, with one handle (slot 1).
Seeker(t) ==
  \/ \E k \in Keys : EmplaceInsert(t, k, t, 1)
  \/ EmplaceBuild(t)
  \/ EmplacePublish(t)
  \/ EmplaceReturn(t)
  \/ \E p \in Probes : EntryFor(t, p, 1)
  \/ EntryForScan(t)
  \/ EntryForDecide(t)
  \/ EntryForThrow(t)
  \/ AtReturn(t)
  \/ AtMiss(t)
  \/ Invalidate(t, 1)

\* The operations of a thread that looks data up by key and cleans the
\* cache up, with one handle (slot 1).
Keeper(t) ==
  \/ \E k \in Keys : At(t, k, 1)
  \/ AtReturn(t)
  \/ AtMiss(t)
  \/ Invalidate(t, 1)
  \/ DropUnused(t)
  \/ DropScan(t)
  \/ DropErase(t)
  \/ DropEraseFree(t)

NextProgress == Seeker(1) \/ Keeper(2)

\* The steps of a running operation that wait for nothing.
Proceed(t) ==
  \/ EmplaceBuild(t)
  \/ EmplacePublish(t)
  \/ EmplaceReturn(t)
  \/ AtReturn(t)
  \/ AtMiss(t)
  \/ EntryForScan(t)
  \/ EntryForThrow(t)
  \/ DropScan(t)
  \/ DropErase(t)

\* Fair scheduling: a thread inside an operation keeps running.  Where
\* entry_for calls at(), the thread waits for a key's position that other
\* threads take and release: it gets the position if that is free again
\* and again.  Where erase waits for the position of the item it has
\* unlinked, no other thread can take that position anew: the erase goes
\* on once the position stays free.  No thread is obliged to start an
\* operation.
FairSeeker(t) ==
  /\ WF_vars(Proceed(t))
  /\ SF_vars(EntryForDecide(t))

FairKeeper(t) == WF_vars(Proceed(t) \/ DropEraseFree(t))

SpecProgress == Init /\ [][NextProgress]_vars /\ FairSeeker(1) /\ FairKeeper(2)

\* ------------------------------------------ ConditionsCache / count_data
\* The intervals of validity and their data, in the order of the std::map.
iovs == << <<(<<0, 2>>), 1>>, <<(<<1, 3>>), 2>> >>

\* The events of the test: each is supported by exactly one interval.
Events ==
  {e \in Probes : Cardinality({i \in DOMAIN iovs : supports(iovs[i][1], e)}) = 1}

\* The first interval of iovs that supports the event, with its datum
\* (the loop of data_for).
IovFor(e) ==
  iovs[CHOOSE i \in DOMAIN iovs :
         /\ supports(iovs[i][1], e)
         /\ \A j \in DOMAIN iovs : supports(iovs[j][1], e) => i <= j]

\* count_data::operator()(event) calls data_for(event), which calls
\* cache_.entry_for(event); the handle is h (slot 1).
DataFor(t, e) ==
  /\ script[t].at = "start"
  /\ EntryForCall(t, e, 1)
  /\ script' = [script EXCEPT ![t] = [at |-> "entry_for", event |-> e]]
  /\ UNCHANGED observed

\* entry_for returned a null handle: cache_.emplace(iov, value).
DataForEmplace(t) ==
  /\ script[t].at = "entry_for"
  /\ EmplaceCall(t, IovFor(script[t].event)[1], IovFor(script[t].event)[2], 1)
  /\ script' = [script EXCEPT ![t].at = "emplace"]
  /\ UNCHANGED observed

\* counter_.tally(event, *h)
Tally(t) ==
  /\ script[t].at \in {"entry_for", "emplace"}
  /\ IdleAt(t)
  /\ handle[t][1] # NoEntry
  /\ script' = [script EXCEPT ![t].at = "tally"]
  /\ UNCHANGED <<entries, node, counts, use_count, next_sequence_number_, handle,
                 thread, observed>>

\* cache_->drop_unused(n_), for n_ other than -1u.
CountDataDrop(t, n) ==
  /\ script[t].at = "tally"
  /\ DropCall(t, n)
  /\ script' = [script EXCEPT ![t].at = "drop_unused"]
  /\ UNCHANGED observed

\* The return of operator(), after tally when n_ is -1u or after
\* drop_unused: h is destroyed.
CountDataReturn(t) ==
  /\ script[t].at \in {"tally", "drop_unused"}
  /\ invalidate(t, 1)
  /\ script' = [script EXCEPT ![t] = NoScript]
  /\ UNCHANGED observed

\* One thread of tbb::parallel_for_each(events, count_data{counter, n}).
CountData(t) ==
  \/ \E e \in Events : DataFor(t, e)
  \/ EntryForScan(t)
  \/ EntryForDecide(t)
  \/ AtReturn(t)
  \/ AtMiss(t)
  \/ DataForEmplace(t)
  \/ EmplaceBuild(t)
  \/ EmplacePublish(t)
  \/ EmplaceReturn(t)
  \/ Tally(t)
  \/ \E n \in 0 .. MaxKeep : CountDataDrop(t, n)
  \/ DropScan(t)
  \/ DropErase(t)
  \/ DropEraseFree(t)
  \/ CountDataReturn(t)

NextConditions == CountData(1) \/ CountData(2)

SpecConditions == Init /\ [][NextConditions]_vars

\* ------------------------------------------------------------------ claims
\* The handles that refer to an entry.
LiveHandles == {h \in Threads \X Slots : handle[h[1]][h[2]] # NoEntry}

\* The node a key is linked to is in the primary map.
InMap(n) == \E k \in DOMAIN entries : entries[k] = n

\* C1: under any interleaving of the client's operations with
\* drop_unused / drop_unused_but_last, an entry referenced by a live handle
\* is never removed from the primary map: every handle that refers to an
\* entry refers to an entry that is in the map (I3).
C1_ReferencedEntryStaysInMap ==
  \A h \in LiveHandles : InMap(handle[h[1]][h[2]])

\* C2: of the emplace calls on one key (nothing is evicted), exactly one
\* stores its value, the one that inserted the key; a later call finds the
\* key, leaves the stored value and the size as they are, and every call
\* returns a handle to the one entry of the key, which holds a value.
C2_EmplaceKeepsFirstValue ==
  [][\A t \in Threads :
       /\ \A k \in DOMAIN entries :
            node[entries[k]].value # NoValue =>
              /\ k \in DOMAIN entries'
              /\ entries'[k] = entries[k]
              /\ node'[entries[k]].value = node[entries[k]].value
       /\ (IdleAt(t) /\ thread'[t].pc = "emplace_found") =>
            /\ thread'[t].k \in DOMAIN entries
            /\ thread'[t].tok = entries[thread'[t].k]
            /\ entries' = entries
       /\ (IdleAt(t) /\ thread'[t].pc = "emplace_build") =>
            /\ thread'[t].k \notin DOMAIN entries
            /\ DOMAIN entries' = DOMAIN entries \cup {thread'[t].k}
            /\ Cardinality(DOMAIN entries') = size + 1
       /\ (thread[t].pc = "emplace_build" /\ thread'[t].pc = "emplace_publish") =>
            /\ entries[thread[t].k] = thread[t].tok
            /\ node'[thread[t].tok].value = thread[t].v
       /\ (thread[t].pc \in {"emplace_found", "emplace_return"} /\ thread'[t].pc = "idle") =>
            /\ handle'[t][thread[t].dst] = entries'[thread[t].k]
            /\ node'[entries'[thread[t].k]].value # NoValue
            /\ node'[entries'[thread[t].k]].value = node[entries[thread[t].k]].value
    ]_vars

\* A second emplace has found the key, whose entry holds another caller's
\* value.
C2_Witness ==
  \E t \in Threads :
    /\ thread[t].pc = "emplace_found"
    /\ node[thread[t].tok].value # NoValue
    /\ node[thread[t].tok].value # thread[t].v

\* C3: at(k), called directly or by entry_for, hits if and only if k is in
\* the primary map at the lookup; a hit returns a handle to the entry the
\* map held for k, whose dereference is the stored value; a miss returns a
\* null handle.
C3_AtHitsExactlyPresentKeys ==
  [][\A t \in Threads :
       /\ (thread[t].pc \in {"idle", "entry_for_scanned"} /\ thread'[t].pc = "at_found") =>
            /\ thread'[t].k \in DOMAIN entries
            /\ thread'[t].tok = entries[thread'[t].k]
       /\ (thread[t].pc \in {"idle", "entry_for_scanned"} /\ thread'[t].pc = "at_miss") =>
            thread'[t].k \notin DOMAIN entries
       /\ (thread[t].pc = "at_found" /\ thread'[t].pc = "idle") =>
            /\ handle'[t][thread[t].dst] = thread[t].tok
            /\ node'[thread[t].tok].st = "live"
            /\ node'[thread[t].tok].key = thread[t].k
            /\ node'[thread[t].tok].value # NoValue
            /\ node'[thread[t].tok].value = node[thread[t].tok].value
       /\ (thread[t].pc = "at_miss" /\ thread'[t].pc = "idle") =>
            handle'[t][thread[t].dst] = NoEntry
    ]_vars

\* at(k) misses a key that was in the cache and has been evicted.
C3_Witness ==
  \E t \in Threads :
    /\ thread[t].pc = "at_miss"
    /\ thread[t].k \in DOMAIN counts
    /\ thread[t].k \notin DOMAIN entries

\* The thread's drop_unused_but_last returns with this step.
DropReturns(t) ==
  /\ thread[t].pc \in {"drop_scan", "drop_erase", "drop_erase_wait"}
  /\ thread'[t].pc = "idle"

\* The keys of the entries that were in the primary map, unused, at the call.
ObservedUnused == {k \in DOMAIN observed : use_count[observed[k]] = 0}

\* C4: drop_unused_but_last(n), run with no concurrent operation, keeps of
\* the unused entries that are in the primary map the n with the largest
\* sequence numbers, erases the other unused ones and keeps every used one;
\* with n or fewer unused entries in the map, the map is left as it was.
C4_KeepsNewestUnusedOfTheMap ==
  [][\A t \in Threads :
       DropReturns(t) =>
         DOMAIN entries' =
           (DOMAIN observed \ ObservedUnused) \cup
           {k \in ObservedUnused :
              Cardinality({j \in ObservedUnused :
                             SizeGreater(sequence_number(observed[j]),
                                         sequence_number(observed[k]))})
                < thread[t].keep}
    ]_vars

\* C5: drop_unused(), run with no concurrent operation, leaves in the
\* primary map exactly the entries whose use count was not zero at the
\* call, each as it was; every entry a live handle refers to is among them.
C5_DropUnusedKeepsExactlyTheUsed ==
  [][\A t \in Threads :
       (DropReturns(t) /\ thread[t].keep = 0) =>
         /\ DOMAIN entries' = {k \in DOMAIN observed : use_count[observed[k]] # 0}
         /\ \A k \in DOMAIN entries' :
              /\ node'[entries'[k]].count = observed[k]
              /\ node'[entries'[k]].st = "live"
         /\ \A h \in LiveHandles :
              \E k \in DOMAIN entries' : entries'[k] = handle[h[1]][h[2]]
         /\ use_count' = use_count
    ]_vars

\* drop_unused() is erasing an unused entry while a handle refers to
\* another entry.
C5_Witness ==
  \E t \in Threads :
    /\ thread[t].pc = "drop_erase_wait"
    /\ thread[t].keep = 0
    /\ LiveHandles # {}
    /\ entries # <<>>

\* The handles that refer to an entry whose counter is c.
HandlesOn(c) == {h \in LiveHandles : node[handle[h[1]][h[2]]].count = c}

\* C6: under construction, copy, assignment, invalidation and destruction
\* of handles and under emplace, at and entry_for, the use count of every
\* entry equals the number of live handles that refer to it, and is never
\* negative.
C6_UseCountIsNumberOfHandles ==
  \A c \in 0 .. (next_sequence_number_ - 1) :
    /\ use_count[c] = Cardinality(HandlesOn(c))
    /\ use_count[c] >= 0

\* Handles of both threads refer to one entry while a thread is halfway
\* through an assignment that released another target.
C6_Witness ==
  \E c \in 0 .. (next_sequence_number_ - 1) :
    /\ use_count[c] >= 2
    /\ \E h1, h2 \in HandlesOn(c) : h1[1] # h2[1]
    /\ \E t \in Threads : thread[t].pc = "assign_adopt"

SupportingRows(t) == {k \in DOMAIN counts : supports(k, thread[t].probe)}

\* C8: entry_for(probe) decides on the keys of the auxiliary map that
\* support probe: with none it returns a null handle, with exactly one it
\* continues as at(that key), with more than one it throws
\* "Data retrieval error."; a call that throws changes neither the maps,
\* nor the entries, nor any use count, nor any handle.
C8_EntryForDecidesOnAuxiliaryKeys ==
  [][\A t \in Threads :
       /\ (thread[t].pc = "entry_for_scanned" /\ thread'[t] # thread[t]) =>
            /\ Len(thread[t].match) = Cardinality(SupportingRows(t))
            /\ {thread[t].match[i] : i \in 1 .. Len(thread[t].match)} = SupportingRows(t)
            /\ Cardinality(SupportingRows(t)) = 0 =>
                 /\ thread'[t].pc = "idle"
                 /\ handle'[t][thread[t].dst] = NoEntry
            /\ Cardinality(SupportingRows(t)) = 1 =>
                 /\ thread'[t].pc \in {"at_found", "at_miss"}
                 /\ thread'[t].k \in SupportingRows(t)
                 /\ thread'[t].pc = "at_found" <=> thread'[t].k \in DOMAIN entries
            /\ Cardinality(SupportingRows(t)) > 1 =>
                 thread'[t].pc = "Data retrieval error."
       /\ (thread'[t] # thread[t]
           /\ \/ thread'[t].pc \in {"entry_for_scan", "entry_for_scanned",
                                    "Data retrieval error."}
              \/ thread[t].pc = "Data retrieval error.") =>
            UNCHANGED <<entries, node, counts, use_count, next_sequence_number_, handle>>
    ]_vars

\* entry_for has thrown for a probe that two keys of the auxiliary map support.
C8_Witness ==
  \E t \in Threads :
    /\ thread[t].pc = "Data retrieval error."
    /\ Cardinality(SupportingRows(t)) > 1

\* The keys of the primary map that support the probe of t's entry_for.
SupportingEntries(t) == {k \in DOMAIN entries : supports(k, thread[t].probe)}

\* C9: with no concurrent operation, entry_for(p) throws only if more
\* than one key that is present in the cache supports p; with at most one
\* such key it returns (a handle to that key's entry, or a null handle).
C9_EntryForThrowsOnlyOnPresentAmbiguity ==
  \A t \in Threads :
    thread[t].pc = "Data retrieval error." => Cardinality(SupportingEntries(t)) > 1

\* C10: on an empty cache, with no concurrent operation, entry_for returns
\* a null handle: it does not throw.
C10_EntryForOnEmptyCacheDoesNotThrow ==
  empty => \A t \in Threads : thread[t].pc # "Data retrieval error."

\* C11: every client of the conditions cache that is about to dereference
\* the handle data_for gave it holds a non-null handle to the entry of the
\* interval that supports its event, the entry is in the cache and holds
\* that interval's datum; no client meets an ambiguity error.
C11_ClientsReadTheirIntervalsDatum ==
  \A t \in Threads :
    /\ thread[t].pc # "Data retrieval error."
    /\ (script[t].at = "emplace" /\ IdleAt(t)) => handle[t][1] # NoEntry
    /\ (script[t].at \in {"entry_for", "emplace"} /\ IdleAt(t)
        /\ handle[t][1] # NoEntry) =>
         /\ InMap(handle[t][1])
         /\ node[handle[t][1]].st = "live"
         /\ node[handle[t][1]].key = IovFor(script[t].event)[1]
         /\ Deref(handle[t][1]) = IovFor(script[t].event)[2]

\* C12: dereferencing a handle that refers to no entry throws
\* "Invalid cache handle dereference.", and only that does; from the call
\* to the arrival of the exception at the caller the handle, the use
\* counts, the sequence counter and both maps stay as they were.
C12_NullDereferenceThrowsAndChangesNothing ==
  [][\A t \in Threads :
       /\ \A s \in Slots :
            (IdleAt(t) /\ handle[t][s] = NoEntry /\ Dereference(t, s)) =>
              /\ thread'[t].pc = "Invalid cache handle dereference."
              /\ thread'[t].dst = s
       /\ (thread'[t].pc = "Invalid cache handle dereference."
           /\ thread[t].pc # thread'[t].pc) =>
            /\ IdleAt(t)
            /\ handle[t][thread'[t].dst] = NoEntry
            /\ UNCHANGED <<entries, node, counts, use_count,
                           next_sequence_number_, handle>>
       /\ (thread[t].pc = "Invalid cache handle dereference."
           /\ thread'[t] # thread[t]) =>
            /\ thread'[t] = Idle
            /\ UNCHANGED <<entries, node, counts, use_count,
                           next_sequence_number_, handle>>
    ]_vars

\* A null handle has been dereferenced while the thread's other handle
\* refers to an entry of the cache.
C12_Witness ==
  \E t \in Threads :
    /\ thread[t].pc = "Invalid cache handle dereference."
    /\ handle[t][thread[t].dst] = NoEntry
    /\ \E s \in Slots : handle[t][s] # NoEntry /\ InMap(handle[t][s])
    /\ capacity > size

\* C13: in every state, the states between the steps of running
\* operations included, capacity() is at least size().
C13_CapacityAtLeastSize == capacity >= size

\* C14: shrink_to_fit(), called with exclusive access, erases every entry
\* whose use count was zero, keeps every other entry with its counter
\* record, and leaves in the auxiliary map exactly the rows of the keys of
\* the primary map, each with the entry's counter record.
C14_ShrinkToFitLeavesNoOrphanRow ==
  [][\A t \in Threads :
       (thread[t].pc = "shrink_rebuild" /\ thread'[t].pc = "idle") =>
         /\ DOMAIN entries' = {k \in DOMAIN observed : use_count[observed[k]] # 0}
         /\ \A k \in DOMAIN entries' : node'[entries'[k]].count = observed[k]
         /\ use_count' = use_count
         /\ DOMAIN counts' = DOMAIN entries'
         /\ \A k \in DOMAIN entries' : counts'[k] = observed[k]
    ]_vars

\* The nodes that hold, or held until they were freed, a created entry.
Created == {n \in Nodes : node[n].st # "fresh" /\ node[n].count >= 0}

\* C15: the sequence numbers of the entries ever created are 0, 1, 2, ...
\* in the order of creation: no two created entries share a number, every
\* number handed out is below next_sequence_number_, the entry a step
\* creates gets the number next_sequence_number_ had, which then grows by
\* one, and an emplace that finds its key present draws no number.
C15_SequenceNumbersCountCreations ==
  /\ [](/\ \A n, m \in Created : n # m => node[n].count # node[m].count
        /\ \A n \in Created : sequence_number(node[n].count) < next_sequence_number_
        /\ \A k \in DOMAIN counts : sequence_number(counts[k]) < next_sequence_number_)
  /\ [][/\ next_sequence_number_' \in {next_sequence_number_, next_sequence_number_ + 1}
        /\ \A t \in Threads :
             /\ (thread[t].pc = "emplace_build" /\ thread'[t].pc # "emplace_build") =>
                  /\ sequence_number(node'[thread[t].tok].count) = next_sequence_number_
                  /\ next_sequence_number_' = next_sequence_number_ + 1
                  /\ \A n \in Created :
                       sequence_number(node[n].count)
                         < sequence_number(node'[thread[t].tok].count)
             /\ (thread'[t].pc = "emplace_found" /\ thread[t].pc # "emplace_found") =>
                  next_sequence_number_' = next_sequence_number_
        /\ (\A t \in Threads : thread[t].pc # "emplace_build") =>
             next_sequence_number_' = next_sequence_number_
       ]_vars

\* An emplace has created an entry for a key that was evicted earlier and
\* is about to write over the key's orphan row, which holds a smaller
\* sequence number.
C15_Witness ==
  \E t \in Threads :
    /\ thread[t].pc = "emplace_publish"
    /\ thread[t].k \in DOMAIN counts
    /\ sequence_number(counts[thread[t].k]) < sequence_number(node[thread[t].tok].count)
    /\ \E u \in Threads : u # t /\ thread[u].pc \in {"emplace_found", "emplace_publish"}

\* C16: whenever no operation is in progress, every key of the primary
\* map has its row in the auxiliary map (one row: counts_ maps a key to
\* one record), and the row holds the counter record that the key's entry
\* holds (I1).
C16_RowSharesTheEntrysCounter ==
  (\A t \in DOMAIN thread : IdleAt(t)) =>
    \A k \in DOMAIN entries :
      /\ k \in DOMAIN counts
      /\ counts[k] = node[entries[k]].count

\* C17: with no concurrent operation, what drop_unused_but_last(n + 1)
\* leaves in the primary map of a state includes what
\* drop_unused_but_last(n) leaves in the primary map of the same state;
\* what a call leaves is what LeftBy says of the state at the call.
C17_RetentionIsMonotone ==
  /\ []((\A t \in Threads : IdleAt(t)) =>
          \A n \in 0 .. MaxKeep :
            LeftBy(DOMAIN entries, n) \subseteq LeftBy(DOMAIN entries, n + 1))
  /\ [][\A t \in Threads :
          DropReturns(t) => DOMAIN entries' = LeftBy(DOMAIN observed, thread[t].keep)
       ]_vars

\* drop_unused_but_last(1) is erasing an entry, and keeps an entry that
\* drop_unused_but_last(0) would have erased from the same map.
C17_Witness ==
  \E t \in Threads :
    /\ thread[t].pc = "drop_erase_wait"
    /\ thread[t].keep = 1
    /\ LeftBy(DOMAIN observed, 0) # LeftBy(DOMAIN observed, 1)
    /\ LeftBy(DOMAIN observed, 1) # DOMAIN observed

\* C18: invalidate() on a handle that refers to an entry lowers that
\* entry's use count by one, no other, and leaves the handle null;
\* invalidate() on a null handle (so also a second invalidate() and the
\* destruction after it) changes nothing.
C18_InvalidateIsIdempotent ==
  [][\A t \in Threads : \A s \in Slots :
       /\ (Invalidate(t, s) /\ handle[t][s] # NoEntry) =>
            /\ handle' = [handle EXCEPT ![t][s] = NoEntry]
            /\ use_count' = [use_count EXCEPT ![node[handle[t][s]].count] = @ - 1]
            /\ UNCHANGED <<entries, node, counts, next_sequence_number_, thread>>
       /\ (Invalidate(t, s) /\ handle[t][s] = NoEntry) => UNCHANGED vars
       /\ (IdleAt(t) /\ thread'[t].pc = "idle"
           /\ handle[t][s] # NoEntry /\ handle'[t][s] = NoEntry) =>
            use_count' = [use_count EXCEPT ![node[handle[t][s]].count] = @ - 1]
    ]_vars

\* No operation is in progress, an entry of the cache has lost its last
\* handle to invalidate(), and a thread is left with null handles only.
C18_Witness ==
  /\ \A t \in Threads : IdleAt(t)
  /\ \E k \in DOMAIN entries : use_count[node[entries[k]].count] = 0
  /\ \E t \in Threads : \A s \in Slots : handle[t][s] = NoEntry

\* C19: while an emplace that created an entry stands between the
\* publication of the entry's counter in the auxiliary map and the
\* construction of the handle it returns, no snapshot of a running
\* drop_unused_but_last lists that entry (its sequence number with its
\* key) as unused.
C19_NewEntryNeverScannedAsUnused ==
  \A t, j \in Threads :
    (thread[t].pc = "emplace_return"
     /\ thread[j].pc \in {"drop_scan", "drop_erase", "drop_erase_wait"}) =>
      \A i \in DOMAIN thread[j].snap :
        thread[j].snap[i] #
          <<sequence_number(node[thread[t].tok].count), thread[t].k>>

\* The thread is inside emplace or at with its accessor on an item.
HoldsPosition(t) ==
  thread[t].pc \in {"emplace_found", "emplace_build", "emplace_publish",
                    "emplace_return", "at_found"}

DropStep(t) ==
  /\ thread[t].pc \in {"drop_scan", "drop_erase", "drop_erase_wait"}
  /\ thread'[t] # thread[t]

\* C21: while a client and an evicting thread run concurrently, no step
\* of emplace, at, entry_for, drop_unused, drop_unused_but_last or of a
\* handle operation takes a row out of the auxiliary map (its key set only
\* grows, so capacity() never decreases); a key that leaves the primary
\* map keeps its row; and no step of drop_unused or drop_unused_but_last,
\* from its call to its return, changes the auxiliary map, a use count or
\* the sequence counter.
C21_OnlyShrinkToFitNarrowsCounts ==
  [][/\ DOMAIN counts \subseteq DOMAIN counts'
     /\ Cardinality(DOMAIN counts') >= capacity
     /\ \A k \in DOMAIN entries \ DOMAIN entries' : k \in DOMAIN counts'
     /\ \A t \in Threads :
          (DropStep(t) \/ (IdleAt(t) /\ thread'[t].pc = "drop_scan")) =>
            /\ counts' = counts
            /\ use_count' = use_count
            /\ next_sequence_number_' = next_sequence_number_]_vars

\* An evicted key is out of the primary map and its row is still in the
\* auxiliary map, after the drop that evicted it has returned.
C21_Witness ==
  /\ \A t \in Threads : IdleAt(t)
  /\ \E k \in DOMAIN counts, n \in Nodes :
       /\ k \notin DOMAIN entries
       /\ node[n].st = "freed"
       /\ node[n].key = k

\* at(k) called by thread t for the handle in slot s does not have to
\* wait: its lookup can go ahead in this state.
AtGoesAhead(t, k, s) == ENABLED At(t, k, s)

\* emplace(k, v) called by thread t for the handle in slot s has to wait
\* for k's position.
EmplaceWaits(t, k, s) ==
  /\ k \in DOMAIN entries
  /\ ~ENABLED EmplaceInsert(t, k, t, s)

\* C22: with two clients running concurrently, while one thread holds
\* its position on a key k, another thread that is ready to call (a) at(k)
\* goes ahead when the holder is itself inside at(k): readers of one key
\* share it; (b) emplace(k, v) waits for as long as k is in the primary
\* map: emplace is exclusive; (c) at on any other key goes ahead:
\* operations on distinct keys do not wait for each other.
C22_ReadersShareTheKeysPosition ==
  \A t \in Threads, u \in Threads, s \in Slots :
    (t # u /\ HoldsPosition(u) /\ IdleAt(t) /\ handle[t][s] = NoEntry) =>
      /\ thread[u].pc = "at_found" => AtGoesAhead(t, thread[u].k, s)
      /\ EmplaceWaits(t, thread[u].k, s)
      /\ \A k \in Keys \ {thread[u].k} : AtGoesAhead(t, k, s)

EmptyEntry(n) ==
  \/ Deref(n) = NoValue
  \/ sequence_number(node[n].count) = InvalidSequenceNumber

\* C24: under any interleaving of the client's operations with
\* evictions, no handle that emplace, at or entry_for has returned refers
\* to an entry without a value or with the invalid placeholder counter
\* (sequence number -1, use count -1), for as long as the handle refers to
\* it.
C24_HandlesNeverSeeAnEmptyEntry ==
  \A h \in LiveHandles : ~EmptyEntry(handle[h[1]][h[2]])

====
